---- MODULE Spec2Model ----
(***************************************************************************)
(* Group-study session coordinator (GroupStudy component).                 *)
(*                                                                         *)
(* The store is the Firestore collection group_sessions, one document per  *)
(* room code.  Every client is one signed-in user with one mounted         *)
(* GroupStudy component; its React state (roomCode, sessionData),          *)
(* its unsubscribeRef and the snapshot listeners it has registered are the *)
(* client's state.  Handlers are translated at their await points: a       *)
(* handler whose only await is its single store write is one action, and   *)
(* handleJoinRoom, which reads and then writes, is two.                    *)
(***************************************************************************)
EXTENDS Integers, Sequences, FiniteSets, TLC

\* ---------------------------------------------------------------- bounds
Users == {"H", "B", "C"}          \* signed-in users, one client each
Codes == {"K1", "K2"}             \* room codes generateRoomCode can draw
MaxOps == 3                       \* creates, joins, unmounts, messages and notes explored

\* ------------------------------------------------------------ documents
NoDoc == [exists |-> FALSE]       \* no document under a code
Null == [exists |-> FALSE]        \* sessionData before the first snapshot
NoRef == "none"                   \* unsubscribeRef.current = null
NoQuiz == "null"                  \* quizState: null
Lobby == ""                       \* roomCode = ''

VARIABLES
    store,          \* code -> session document or NoDoc
    displayName,    \* user -> current profile name (identity provider)
    roomCode,       \* client -> code shown, Lobby when none
    sessionData,    \* client -> last delivered snapshot, Null when none
    unsubscribeRef, \* client -> code whose listener the ref would detach
    listeners,      \* client -> code -> live onSnapshot listeners
    pendingSnap,    \* client -> codes with an undelivered snapshot
    inflight,       \* client -> joins between getDoc and updateDoc
    member,         \* client -> codes it entered and has not left (history)
    last,           \* the last handler run (history)
    nOps            \* operations started so far

vars == <<store, displayName, roomCode, sessionData, unsubscribeRef, listeners,
          pendingSnap, inflight, member, last, nOps>>

\* ----------------------------------------------------- helper operators
Uids(participants) == {participants[i].uid : i \in DOMAIN participants}

\* { uid, name, photoURL } of the signed-in user
NewParticipant(u) == [uid |-> u, name |-> displayName[u]]

\* Firestore arrayUnion: the element is added unless an equal one is there
ArrayUnion(seq, e) ==
    IF \E i \in DOMAIN seq : seq[i] = e THEN seq ELSE Append(seq, e)

\* participants.filter(p => p.uid !== user.uid)
FilterOut(participants, u) == SelectSeq(participants, LAMBDA p : p.uid # u)

\* field path permissions.<u>.canShare set to true
SetCanShare(permissions, u) ==
    [k \in DOMAIN permissions \cup {u} |-> IF k = u THEN TRUE ELSE permissions[k]]

\* field path permissions.<u> : deleteField()
DeleteKey(permissions, u) == [k \in DOMAIN permissions \ {u} |-> permissions[k]]

\* { ...permissions, [u]: { canShare: false } }
SpreadWith(permissions, u) ==
    [k \in DOMAIN permissions \cup {u} |-> IF k = u THEN FALSE ELSE permissions[k]]

\* ------------------------------------------------------- store writes
\* initialSessionData with the creator denied sharing
InitialSessionDataNoShare(u) ==
    [exists |-> TRUE,
     hostId |-> u,
     participants |-> <<NewParticipant(u)>>,
     chatMessages |-> <<>>,
     sharedNotes |-> <<>>,
     quizState |-> NoQuiz,
     permissions |-> [k \in {u} |-> FALSE]]

\* initialSessionData of handleCreateRoom
InitialSessionData(u) ==
    [exists |-> TRUE,
     hostId |-> u,
     participants |-> <<NewParticipant(u)>>,
     chatMessages |-> <<>>,
     sharedNotes |-> <<>>,
     quizState |-> NoQuiz,
     permissions |-> [k \in {u} |-> TRUE]]

\* setDoc(ref, data): the document is written whether or not one exists
SetDoc(doc, data) == data

\* the updateDoc of handleJoinRoom applied to the stored document
JoinUpdate(doc, readPermissions, u) ==
    [doc EXCEPT !.participants = ArrayUnion(doc.participants, NewParticipant(u)),
                !.permissions = SpreadWith(readPermissions, u)]

\* LeaveWrite with the host role handed to the latest joiner
LeaveWriteLatestJoiner(doc, view, u) ==
    LET newParticipants == FilterOut(view.participants, u)
        isHost == u = view.hostId
        newHost == newParticipants[Len(newParticipants)].uid
    IN  IF isHost /\ Len(newParticipants) > 0
        THEN IF doc.exists
             THEN [doc EXCEPT !.hostId = newHost,
                              !.participants = newParticipants,
                              !.permissions = SetCanShare(doc.permissions, newHost)]
             ELSE doc
        ELSE IF Len(newParticipants) = 0
        THEN NoDoc
        ELSE IF doc.exists
             THEN [doc EXCEPT !.participants = newParticipants,
                              !.permissions = DeleteKey(doc.permissions, u)]
             ELSE doc

\* LeaveWrite without the delete branch: the last leaver writes its removal
LeaveWriteNoDelete(doc, view, u) ==
    LET newParticipants == FilterOut(view.participants, u)
        isHost == u = view.hostId
    IN  IF ~doc.exists
        THEN doc
        ELSE IF isHost /\ Len(newParticipants) > 0
        THEN [doc EXCEPT !.hostId = newParticipants[1].uid,
                         !.participants = newParticipants,
                         !.permissions = SetCanShare(doc.permissions, newParticipants[1].uid)]
        ELSE [doc EXCEPT !.participants = newParticipants,
                         !.permissions = DeleteKey(doc.permissions, u)]

\* LeaveWrite as a transaction: the list is recomputed from the stored document
LeaveWriteFromStore(doc, view, u) ==
    IF ~doc.exists
    THEN doc
    ELSE LET newParticipants == FilterOut(doc.participants, u)
         IN  IF Len(newParticipants) = 0
             THEN NoDoc
             ELSE IF u = doc.hostId
             THEN [doc EXCEPT !.hostId = newParticipants[1].uid,
                              !.participants = newParticipants,
                              !.permissions = SetCanShare(doc.permissions, newParticipants[1].uid)]
             ELSE [doc EXCEPT !.participants = newParticipants,
                              !.permissions = DeleteKey(doc.permissions, u)]

\* the write of handleLeaveRoom, computed from the leaver's snapshot `view`
\* and applied to the stored document; updateDoc fails on a missing document
LeaveWrite(doc, view, u) ==
    LET newParticipants == FilterOut(view.participants, u)
        isHost == u = view.hostId
    IN  IF isHost /\ Len(newParticipants) > 0
        THEN IF doc.exists
             THEN [doc EXCEPT !.hostId = newParticipants[1].uid,
                              !.participants = newParticipants,
                              !.permissions = SetCanShare(doc.permissions, newParticipants[1].uid)]
             ELSE doc
        ELSE IF Len(newParticipants) = 0
        THEN NoDoc
        ELSE IF doc.exists
             THEN [doc EXCEPT !.participants = newParticipants,
                              !.permissions = DeleteKey(doc.permissions, u)]
             ELSE doc

\* ------------------------------------------------------ subscriptions
\* onSnapshot registered by subscribeToSession; the ref is overwritten
Subscribe(c, code) ==
    /\ unsubscribeRef' = [unsubscribeRef EXCEPT ![c] = code]
    /\ listeners' = [listeners EXCEPT ![c][code] = @ + 1]

\* listeners of client c after unsubscribeRef.current() was called
Detached(c) ==
    IF unsubscribeRef[c] = NoRef THEN listeners[c]
    ELSE [listeners[c] EXCEPT ![unsubscribeRef[c]] = @ - 1]

\* snapshots owed after `code` was written (changed) and `c` now listens as ls
Owed(ls, code, changed, alsoNew) ==
    [d \in Users |->
        {k \in Codes : ls[d][k] > 0 /\
            (k \in pendingSnap[d] \/ (k = code /\ changed) \/ (k \in alsoNew[d]))}]

NoNew == [d \in Users |-> {}]

\* the record of a handler run: who ran what on which code, whether its store
\* call was accepted, the stored document before it, the snapshot it computed
\* from, the message it passed to setError, whether it is a leave that
\* directly follows the same client's create, and (input) the oracle's answer
Op(op, c, code, acted, before, view, immediate, message) ==
    [op |-> op, c |-> c, code |-> code, acted |-> acted, before |-> before,
     view |-> view, immediate |-> immediate, error |-> message, input |-> ""]

\* ----------------------------------------------------------------- Init
Init ==
    /\ store = [k \in Codes |-> NoDoc]
    /\ displayName = [u \in Users |-> 0]
    /\ roomCode = [c \in Users |-> Lobby]
    /\ sessionData = [c \in Users |-> Null]
    /\ unsubscribeRef = [c \in Users |-> NoRef]
    /\ listeners = [c \in Users |-> [k \in Codes |-> 0]]
    /\ pendingSnap = [c \in Users |-> {}]
    /\ inflight = [c \in Users |-> {}]
    /\ member = [c \in Users |-> {}]
    /\ last = Op("init", "", "", FALSE, NoDoc, Null, FALSE, "")
    /\ nOps = 0

\* -------------------------------------------------------------- actions
\* handleCreateRoom: the lobby's Create Room button
CreateRoom(c, code) ==
    /\ roomCode[c] = Lobby
    /\ nOps < MaxOps
    /\ nOps' = nOps + 1
    /\ store' = [store EXCEPT ![code] = SetDoc(store[code], InitialSessionData(c))]
    /\ roomCode' = [roomCode EXCEPT ![c] = code]
    /\ Subscribe(c, code)
    /\ pendingSnap' = Owed(listeners', code, store'[code] # store[code],
                           [NoNew EXCEPT ![c] = {code}])
    /\ member' = [member EXCEPT ![c] = @ \cup {code}]
    /\ last' = Op("create", c, code, TRUE, store[code], Null, FALSE, "")
    /\ UNCHANGED <<displayName, sessionData, inflight>>

\* inputRoomCode.trim().toUpperCase() of the inputs explored
Inputs == Codes \cup {""}

\* a join that shows the room although no record was found
JoinReadEntersUnknown(c, code) ==
    /\ roomCode[c] = Lobby
    /\ nOps < MaxOps
    /\ nOps' = nOps + 1
    /\ IF code = ""
       THEN /\ inflight' = inflight
            /\ roomCode' = roomCode
            /\ last' = Op("joinRead", c, code, FALSE, NoDoc, Null, FALSE,
                          "Please enter a room code.")
       ELSE IF store[code].exists
       THEN /\ inflight' = [inflight EXCEPT ![c] = @ \cup
                    {[code |-> code, permissions |-> store[code].permissions,
                      mounted |-> TRUE,
                      n |-> Cardinality({i \in inflight[c] : i.code = code})]}]
            /\ roomCode' = roomCode
            /\ last' = Op("joinRead", c, code, TRUE, store[code], Null, FALSE, "")
       ELSE /\ inflight' = inflight
            /\ roomCode' = [roomCode EXCEPT ![c] = code]
            /\ last' = Op("joinRead", c, code, FALSE, NoDoc, Null, FALSE, "Room not found.")
    /\ UNCHANGED <<store, displayName, sessionData, unsubscribeRef, listeners,
                   pendingSnap, member>>

\* handleJoinRoom up to its updateDoc: the input is checked and getDoc answers
JoinRead(c, code) ==
    /\ roomCode[c] = Lobby
    /\ nOps < MaxOps
    /\ nOps' = nOps + 1
    /\ IF code = ""
       THEN /\ inflight' = inflight
            /\ last' = Op("joinRead", c, code, FALSE, NoDoc, Null, FALSE,
                          "Please enter a room code.")
       ELSE IF store[code].exists
       THEN /\ inflight' = [inflight EXCEPT ![c] = @ \cup
                    {[code |-> code, permissions |-> store[code].permissions,
                      mounted |-> TRUE,
                      n |-> Cardinality({i \in inflight[c] : i.code = code})]}]
            /\ last' = Op("joinRead", c, code, TRUE, store[code], Null, FALSE, "")
       ELSE /\ inflight' = inflight
            /\ last' = Op("joinRead", c, code, FALSE, NoDoc, Null, FALSE, "Room not found.")
    /\ UNCHANGED <<store, displayName, roomCode, sessionData, unsubscribeRef, listeners,
                   pendingSnap, member>>

\* handleJoinRoom from its updateDoc on: the write is applied, then setRoomCode
\* and subscribeToSession run.  After an unmount the continuation still writes,
\* but its state setters and its listener reach no mounted component.
JoinWrite(c, j) ==
    /\ j \in inflight[c]
    /\ inflight' = [inflight EXCEPT ![c] = @ \ {j}]
    /\ IF store[j.code].exists
       THEN /\ store' = [store EXCEPT ![j.code] = JoinUpdate(@, j.permissions, c)]
            /\ member' = [member EXCEPT ![c] = @ \cup {j.code}]
            /\ last' = Op("join", c, j.code, TRUE, store[j.code], Null, FALSE, "")
            /\ IF j.mounted
               THEN /\ roomCode' = [roomCode EXCEPT ![c] = j.code]
                    /\ Subscribe(c, j.code)
                    /\ pendingSnap' = Owed(listeners', j.code, store'[j.code] # store[j.code],
                                           [NoNew EXCEPT ![c] = {j.code}])
               ELSE /\ pendingSnap' = Owed(listeners, j.code, store'[j.code] # store[j.code],
                                           NoNew)
                    /\ UNCHANGED <<roomCode, unsubscribeRef, listeners>>
       ELSE /\ last' = Op("join", c, j.code, FALSE, NoDoc, Null, FALSE, "Failed to join room.")
            /\ UNCHANGED <<store, roomCode, unsubscribeRef, listeners, pendingSnap, member>>
    /\ UNCHANGED <<displayName, sessionData, nOps>>

\* the onSnapshot callback of subscribeToSession.  Its handleLeaveRoom is the
\* closure of the lobby render that started the create or join, where
\* roomCode is '', so that call returns at its guard.
Deliver(c, code) ==
    /\ code \in pendingSnap[c]
    /\ pendingSnap' = [pendingSnap EXCEPT ![c] = @ \ {code}]
    /\ IF store[code].exists
       THEN /\ sessionData' = [sessionData EXCEPT ![c] = store[code]]
            /\ last' = last
       ELSE /\ sessionData' = sessionData
            /\ last' = Op("ended", c, code, FALSE, NoDoc, Null, FALSE,
                          "The session has ended.")
    /\ UNCHANGED <<store, displayName, roomCode, unsubscribeRef, listeners, inflight,
                   member, nOps>>

\* handleLeaveRoom guarded by the room code only: without a snapshot the
\* destructuring defaults apply (participants [], hostId '')
LeaveRoomNoViewGuard(c) ==
    /\ roomCode[c] # Lobby
    /\ LET code == roomCode[c]
           immediate == last.op = "create" /\ last.c = c /\ last.code = code
           view == IF sessionData[c] = Null
                   THEN [exists |-> FALSE, participants |-> <<>>, hostId |-> ""]
                   ELSE sessionData[c]
       IN  /\ unsubscribeRef' = [unsubscribeRef EXCEPT ![c] = NoRef]
           /\ listeners' = [listeners EXCEPT ![c] = Detached(c)]
           /\ store' = [store EXCEPT ![code] = LeaveWrite(@, view, c)]
           /\ pendingSnap' = Owed(listeners', code, store'[code] # store[code], NoNew)
           /\ roomCode' = [roomCode EXCEPT ![c] = Lobby]
           /\ sessionData' = [sessionData EXCEPT ![c] = Null]
           /\ member' = [member EXCEPT ![c] = @ \ {code}]
           /\ last' = Op("leave", c, code, sessionData[c] # Null, store[code],
                         sessionData[c], immediate, "")
    /\ UNCHANGED <<displayName, inflight, nOps>>

\* handleLeaveRoom: the Leave Room button of the room view
LeaveRoom(c) ==
    /\ roomCode[c] # Lobby
    /\ LET code == roomCode[c]
           immediate == last.op = "create" /\ last.c = c /\ last.code = code
       IN  IF sessionData[c] = Null
           THEN /\ last' = Op("leave", c, code, FALSE, store[code], Null, immediate, "")
                /\ UNCHANGED <<store, roomCode, sessionData, unsubscribeRef, listeners,
                               pendingSnap, member>>
           ELSE /\ unsubscribeRef' = [unsubscribeRef EXCEPT ![c] = NoRef]
                /\ listeners' = [listeners EXCEPT ![c] = Detached(c)]
                /\ store' = [store EXCEPT ![code] = LeaveWrite(@, sessionData[c], c)]
                /\ pendingSnap' = Owed(listeners', code, store'[code] # store[code], NoNew)
                /\ roomCode' = [roomCode EXCEPT ![c] = Lobby]
                /\ sessionData' = [sessionData EXCEPT ![c] = Null]
                /\ member' = [member EXCEPT ![c] = @ \ {code}]
                /\ last' = Op("leave", c, code, TRUE, store[code], sessionData[c],
                              immediate, "")
    /\ UNCHANGED <<displayName, inflight, nOps>>

\* a cleanup that also takes the client off the stored roster
UnmountLeaves(c) ==
    /\ nOps < MaxOps
    /\ nOps' = nOps + 1
    /\ roomCode' = [roomCode EXCEPT ![c] = Lobby]
    /\ sessionData' = [sessionData EXCEPT ![c] = Null]
    /\ unsubscribeRef' = [unsubscribeRef EXCEPT ![c] = NoRef]
    /\ listeners' = [listeners EXCEPT ![c] = [k \in Codes |-> 0]]
    /\ store' = [k \in Codes |->
                    IF k = roomCode[c] THEN LeaveWriteFromStore(store[k], store[k], c)
                    ELSE store[k]]
    /\ pendingSnap' = [Owed(listeners', roomCode[c], store' # store, NoNew)
                          EXCEPT ![c] = {}]
    /\ inflight' = [inflight EXCEPT ![c] = {[j EXCEPT !.mounted = FALSE] : j \in @}]
    /\ last' = Op("unmount", c, roomCode[c], TRUE,
                  IF roomCode[c] = Lobby THEN NoDoc ELSE store[roomCode[c]],
                  Null, FALSE, "")
    /\ UNCHANGED <<displayName, member>>

\* the cleanup of the mount effect followed by a fresh mount: the ref's listener
\* is detached and the new instance starts from the initial React state
Unmount(c) ==
    /\ nOps < MaxOps
    /\ nOps' = nOps + 1
    /\ roomCode' = [roomCode EXCEPT ![c] = Lobby]
    /\ sessionData' = [sessionData EXCEPT ![c] = Null]
    /\ unsubscribeRef' = [unsubscribeRef EXCEPT ![c] = NoRef]
    /\ listeners' = [listeners EXCEPT ![c] = [k \in Codes |-> 0]]
    /\ pendingSnap' = [pendingSnap EXCEPT ![c] = {}]
    /\ inflight' = [inflight EXCEPT ![c] = {[j EXCEPT !.mounted = FALSE] : j \in @}]
    /\ last' = Op("unmount", c, roomCode[c], TRUE,
                  IF roomCode[c] = Lobby THEN NoDoc ELSE store[roomCode[c]],
                  Null, FALSE, "")
    /\ UNCHANGED <<store, displayName, member>>

\* crypto.randomUUID(): an id no message or note block of the document has
FreshId(doc) ==
    IF doc.exists THEN Len(doc.chatMessages) + Len(doc.sharedNotes) + 1 ELSE 1

\* an update that stores the new message in place of the array
AppendChatOverwrite(doc, message) ==
    [doc EXCEPT !.chatMessages = <<message>>]

\* the message or note block appended by arrayUnion
AppendChat(doc, message) ==
    [doc EXCEPT !.chatMessages = ArrayUnion(@, message)]

AppendNotes(doc, block) ==
    [doc EXCEPT !.sharedNotes = ArrayUnion(@, block)]

\* handleSendChatMessage; a failing updateDoc is an unhandled rejection
SendChatMessage(c) ==
    /\ roomCode[c] # Lobby
    /\ nOps < MaxOps
    /\ nOps' = nOps + 1
    /\ LET code == roomCode[c]
           message == [id |-> FreshId(store[code]), senderId |-> c]
       IN  /\ store' = [store EXCEPT ![code] =
                    IF @.exists THEN AppendChat(@, message) ELSE @]
           /\ pendingSnap' = Owed(listeners, code, store'[code] # store[code], NoNew)
           /\ last' = Op("chat", c, code, store[code].exists, store[code], Null, FALSE, "")
    /\ UNCHANGED <<displayName, roomCode, sessionData, unsubscribeRef, listeners,
                   inflight, member>>

\* what JSON.parse(notesResponse.text) gives handleGenerateNotes
OracleAnswers == {"notes", "noNotesArray", "unparseable"}

\* the caller's canShare as the component computes it (myPermissions)
MyPermissions(permissions, u) ==
    IF u \in DOMAIN permissions THEN permissions[u] ELSE FALSE

\* handleGenerateNotes
GenerateNotes(c, answer) ==
    /\ roomCode[c] # Lobby
    /\ nOps < MaxOps
    /\ nOps' = nOps + 1
    /\ LET code == roomCode[c]
           block == [id |-> FreshId(store[code]), authorId |-> c,
                     notes |-> IF answer = "notes" THEN "lines" ELSE "none"]
           written == answer # "unparseable" /\ store[code].exists
       IN  /\ store' = [store EXCEPT ![code] = IF written THEN AppendNotes(@, block) ELSE @]
           /\ pendingSnap' = Owed(listeners, code, store'[code] # store[code], NoNew)
           /\ last' = [Op("shareNotes", c, code, written, store[code], Null, FALSE,
                            IF written THEN "" ELSE "Failed to generate notes from AI.")
                        EXCEPT !.input = answer]
    /\ UNCHANGED <<displayName, roomCode, sessionData, unsubscribeRef, listeners,
                   inflight, member>>

Next ==
    \/ \E c \in Users, code \in Codes : CreateRoom(c, code)
    \/ \E c \in Users, code \in Inputs : JoinRead(c, code)
    \/ \E c \in Users : \E j \in inflight[c] : JoinWrite(c, j)
    \/ \E c \in Users, code \in Codes : Deliver(c, code)
    \/ \E c \in Users : LeaveRoom(c)
    \/ \E c \in Users : Unmount(c)
    \/ \E c \in Users : SendChatMessage(c)
    \/ \E c \in Users, answer \in OracleAnswers : GenerateNotes(c, answer)

Spec == Init /\ [][Next]_vars

\* The same clients when generateRoomCode never draws a code that is in use
CreateUnused(c, code) == ~store[code].exists /\ CreateRoom(c, code)

NextUnused ==
    \/ \E c \in Users, code \in Codes : CreateUnused(c, code)
    \/ \E c \in Users, code \in Inputs : JoinRead(c, code)
    \/ \E c \in Users : \E j \in inflight[c] : JoinWrite(c, j)
    \/ \E c \in Users, code \in Codes : Deliver(c, code)
    \/ \E c \in Users : LeaveRoom(c)
    \/ \E c \in Users : Unmount(c)
    \/ \E c \in Users : SendChatMessage(c)
    \/ \E c \in Users, answer \in OracleAnswers : GenerateNotes(c, answer)

SpecUnused == Init /\ [][NextUnused]_vars

\* The identity provider changes the profile name the user prop carries;
\* handleCreateRoom and handleJoinRoom read user.displayName when they run.
MaxRenames == 1

Rename(u) ==
    /\ displayName[u] < MaxRenames
    /\ displayName' = [displayName EXCEPT ![u] = @ + 1]
    /\ last' = Op("rename", u, "", TRUE, NoDoc, Null, FALSE, "")
    /\ UNCHANGED <<store, roomCode, sessionData, unsubscribeRef, listeners, pendingSnap,
                   inflight, member, nOps>>

NextRename ==
    \/ NextUnused
    \/ \E u \in Users : Rename(u)

SpecRename == Init /\ [][NextRename]_vars

\* Clients that only create rooms: no join, no leave, so no record is deleted
NextCreate ==
    \/ \E c \in Users, code \in Codes : CreateRoom(c, code)
    \/ \E c \in Users, code \in Codes : Deliver(c, code)

SpecCreate == Init /\ [][NextCreate]_vars

\* ------------------------------------------------------------ room codes
\* Strings are sequences of one-character strings.
word1 == <<<<"H", "A", "P", "P", "Y">>, <<"L", "A", "Z", "Y">>, <<"B", "R", "I", "G", "H", "T">>, <<"Q", "U", "I", "C", "K">>, <<"S", "I", "L", "E", "N", "T">>, <<"S", "P", "A", "R", "K">>>>
word2 == <<<<"F", "O", "X">>, <<"C", "U", "P">>, <<"T", "R", "E", "E">>, <<"R", "I", "V", "E", "R">>, <<"S", "T", "O", "N", "E">>, <<"C", "L", "O", "U", "D">>>>

UpperLetters == <<"A", "B", "C", "D", "E", "F", "G", "H", "I", "J", "K", "L", "M", "N", "O", "P", "Q", "R", "S", "T", "U", "V", "W", "X", "Y", "Z">>
LowerLetters == <<"a", "b", "c", "d", "e", "f", "g", "h", "i", "j", "k", "l", "m", "n", "o", "p", "q", "r", "s", "t", "u", "v", "w", "x", "y", "z">>
DigitChars == <<"0", "1", "2", "3", "4", "5", "6", "7", "8", "9">>
Whitespace == {" ", "\t", "\n"}

\* `${n}` of a non-negative integer: its decimal digits
RECURSIVE NumberToString(_)
NumberToString(n) ==
    IF n < 10 THEN <<DigitChars[n + 1]>>
    ELSE NumberToString(n \div 10) \o <<DigitChars[(n % 10) + 1]>>

\* generateRoomCode with Math.floor(Math.random()*word1.length) = i,
\* Math.floor(Math.random()*word2.length) = j and Math.floor(Math.random()*90) = n
generateRoomCode(i, j, n) ==
    word1[i + 1] \o <<"-">> \o word2[j + 1] \o <<"-">> \o NumberToString(n + 10)

\* the results Math.floor(Math.random()*90) can have
Draws90 == 0 .. 89

\* String.prototype.toUpperCase on ASCII text
UpperOf(ch) ==
    IF \E k \in DOMAIN LowerLetters : LowerLetters[k] = ch
    THEN UpperLetters[CHOOSE k \in DOMAIN LowerLetters : LowerLetters[k] = ch]
    ELSE ch

ToUpperCase(s) == [k \in DOMAIN s |-> UpperOf(s[k])]

\* String.prototype.trim: white space is removed from both ends
RECURSIVE TrimStart(_)
TrimStart(s) ==
    IF s # <<>> /\ Head(s) \in Whitespace THEN TrimStart(Tail(s)) ELSE s

RECURSIVE TrimEnd(_)
TrimEnd(s) ==
    IF s # <<>> /\ s[Len(s)] \in Whitespace THEN TrimEnd(SubSeq(s, 1, Len(s) - 1)) ELSE s

\* a trim that forgets the end of the text
TrimLeading(s) == TrimStart(s)

Trim(s) == TrimEnd(TrimStart(s))

\* inputRoomCode.trim().toUpperCase(), the key handleJoinRoom looks up
NormaliseInput(s) == ToUpperCase(Trim(s))

\* what a user may type for a stored code: other letter case, padding
MaxPad == 1
LowerOf(ch) ==
    IF \E k \in DOMAIN UpperLetters : UpperLetters[k] = ch
    THEN LowerLetters[CHOOSE k \in DOMAIN UpperLetters : UpperLetters[k] = ch]
    ELSE ch
Casings == {"upper", "lower", "mixed"}
Recase(s, casing) ==
    [k \in DOMAIN s |->
        IF casing = "lower" \/ (casing = "mixed" /\ k % 2 = 1) THEN LowerOf(s[k]) ELSE s[k]]
Paddings == {[k \in 1 .. m |-> ch] : m \in 0 .. MaxPad, ch \in {" ", "\t"}}

\* one call of generateRoomCode
GenerateCode(i, j, n) ==
    /\ last' = [op |-> "generateRoomCode", code |-> generateRoomCode(i, j, n)]
    /\ UNCHANGED <<store, displayName, roomCode, sessionData, unsubscribeRef, listeners,
                   pendingSnap, inflight, member, nOps>>

\* the first statement of handleJoinRoom on a typed variant of a generated code
TypeRoomCode(i, j, n, left, right, casing) ==
    LET stored == generateRoomCode(i, j, n)
        typed == left \o Recase(stored, casing) \o right
    IN  /\ last' = [op |-> "inputRoomCode", stored |-> stored, input |-> typed,
                    code |-> NormaliseInput(typed)]
        /\ UNCHANGED <<store, displayName, roomCode, sessionData, unsubscribeRef,
                       listeners, pendingSnap, inflight, member, nOps>>

\* the freshly mounted component draws a code
DrawCode ==
    /\ last.op = "init"
    /\ \E i \in 0 .. Len(word1) - 1, j \in 0 .. Len(word2) - 1, n \in Draws90 :
          GenerateCode(i, j, n)

\* the freshly mounted component is given a typed code to join
TypeCode ==
    /\ last.op = "init"
    /\ \E i \in 0 .. Len(word1) - 1, j \in 0 .. Len(word2) - 1, n \in Draws90 :
          \E left \in Paddings, right \in Paddings, casing \in Casings :
              TypeRoomCode(i, j, n, left, right, casing)

NextCode == DrawCode \/ TypeCode

SpecCode == Init /\ [][NextCode]_vars

\* ---------------------------------------------------------------- claims
Roster(k) == Uids(store[k].participants)

\* C1: every persisted session with a non-empty participants list has a
\* hostId that is the uid of one of its participants.
HostIsParticipant ==
    \A k \in Codes :
        store[k].exists /\ store[k].participants # <<>> => store[k].hostId \in Roster(k)

\* C2: the key set of a persisted session's permissions map equals the set
\* of uids in its participants list.
PermissionKeysMatchRoster ==
    \A k \in Codes : store[k].exists => DOMAIN store[k].permissions = Roster(k)

\* C3: after a join by an identity that was already a participant, the list
\* holds exactly one entry for that uid and a canShare of true is still true.
JoinIsIdempotent ==
    (last.op = "join" /\ last.acted /\ last.c \in Uids(last.before.participants)) =>
        LET doc == store[last.code]
        IN  /\ Cardinality({i \in DOMAIN doc.participants :
                                doc.participants[i].uid = last.c}) = 1
            /\ (last.c \in DOMAIN last.before.permissions
                   /\ last.before.permissions[last.c]) => doc.permissions[last.c]

CreateThenLeaveRemoves ==
    (last.op = "leave" /\ last.immediate) => ~store[last.code].exists

PermissionGate ==
    (/\ last.op = "shareNotes" /\ last.before.exists
     /\ last.c \in Uids(last.before.participants)
     /\ ~MyPermissions(last.before.permissions, last.c)) =>
        /\ ~last.acted
        /\ Len(store[last.code].sharedNotes) = Len(last.before.sharedNotes)

\* C8: a createRoom leaves a session already persisted under its code as it was.
CreateNeverOverwrites ==
    (last.op = "create" /\ last.before.exists) => store[last.code] = last.before

\* C9: a leave deletes the record only when no other client that entered the
\* session is still to leave it.
DeletedOnlyByLastParticipant ==
    (last.op = "leave" /\ last.acted /\ last.before.exists /\ ~store[last.code].exists) =>
        \A d \in Users \ {last.c} : last.code \notin member[d]

\* C10: once every client that entered a session has left it and no join is
\* in flight, no record is stored under its code.
AbsentOnceAllLeft ==
    \A k \in Codes :
        ((\A c \in Users : k \notin member[c]) /\ (\A c \in Users : inflight[c] = {}))
            => ~store[k].exists

IsPrefix(a, b) == Len(a) <= Len(b) /\ SubSeq(b, 1, Len(a)) = a

\* the handler recorded in `last` wrote to a record that is still stored
WroteToKept == last.code \in Codes /\ last.before.exists /\ store[last.code].exists

\* C11: whatever the last handler was, the chatMessages and sharedNotes the
\* session had before it are prefixes of the ones it has now.
AppendOnly ==
    WroteToKept =>
        /\ IsPrefix(last.before.chatMessages, store[last.code].chatMessages)
        /\ IsPrefix(last.before.sharedNotes, store[last.code].sharedNotes)

\* how often an element with this id occurs in a stored sequence
Occurrences(seq, id) == Cardinality({i \in DOMAIN seq : seq[i].id = id})

AtMostOneSubscription ==
    \A c \in Users :
        Cardinality({k \in Codes : listeners[c][k] > 0}) <= 1
            /\ \A k \in Codes : listeners[c][k] <= 1

\* C14: after a leave the client holds no subscription handle, and the record
\* as the leave wrote it is not what the client's session view shows.
NoPostDepartureSnapshot ==
    (last.op = "leave" /\ last.acted) =>
        /\ unsubscribeRef[last.c] = NoRef
        /\ (store[last.code].exists /\ store[last.code] # last.before)
              => sessionData[last.c] # store[last.code]

\* C15: a join against a code with no record reports "Room not found.",
\* creates no record, and leaves the client in the lobby without a
\* subscription handle.
JoinUnknownRoomFails ==
    (last.op = "joinRead" /\ last.code \in Codes /\ ~last.acted) =>
        /\ last.error = "Room not found."
        /\ ~store[last.code].exists
        /\ roomCode[last.c] = Lobby
        /\ unsubscribeRef[last.c] = NoRef

\* C15 witness: a client entered a code nobody had created
JoinUnknownRoomWitness ==
    /\ last.op = "joinRead" /\ last.code \in Codes /\ ~last.acted
    /\ last.error = "Room not found."
    /\ \A k \in Codes : ~store[k].exists

\* C16: after createRoom by I the record under the code is exactly
\* participants [I], hostId I, permissions {I: canShare true}, no chat, no
\* notes, no quiz, and the caller shows the room and listens to it.
CreatePersistsSession ==
    (last.op = "create") =>
        /\ store[last.code] =
              [exists |-> TRUE, hostId |-> last.c,
               participants |-> <<[uid |-> last.c, name |-> displayName[last.c]]>>,
               chatMessages |-> <<>>, sharedNotes |-> <<>>, quizState |-> NoQuiz,
               permissions |-> [k \in {last.c} |-> TRUE]]
        /\ roomCode[last.c] = last.code
        /\ unsubscribeRef[last.c] = last.code
        /\ listeners[last.c][last.code] >= 1

\* C16 witness: a room was created and its first snapshot reached the creator
CreatePersistsWitness ==
    /\ last.op = "create"
    /\ sessionData[last.c] = store[last.code]
    /\ store[last.code].hostId = last.c

\* C17: no persisted participants list names a uid twice, also after a
\* re-join under a changed display name.
UniqueByUid ==
    \A k \in Codes : store[k].exists =>
        \A i, j \in DOMAIN store[k].participants :
            store[k].participants[i].uid = store[k].participants[j].uid => i = j

\* C19: a response that does not parse, or parses without a notes array,
\* leaves the stored session as it was.
MalformedAnswerAppendsNothing ==
    (last.op = "shareNotes" /\ last.input \in {"unparseable", "noNotesArray"}) =>
        store[last.code] = last.before

\* C20: a join, chat or notes write the store rejected left an error message
\* with the client that issued it.
WriteFailureSurfaced ==
    (/\ last.op \in {"join", "chat", "shareNotes"}
     /\ last.input # "unparseable"
     /\ ~last.acted) => last.error # ""

\* C21: a client that listens to the room it shows, with no snapshot still
\* to be delivered, holds exactly the stored document of that room.
ViewsConverge ==
    \A c \in Users :
        (/\ roomCode[c] # Lobby
         /\ listeners[c][roomCode[c]] > 0
         /\ pendingSnap[c] = {}
         /\ store[roomCode[c]].exists) => sessionData[c] = store[roomCode[c]]

Range(s) == {s[k] : k \in DOMAIN s}

\* ^[A-Z]+-[A-Z]+-\d{2}$ with the words from the lists and the number in 10..99
HasCodeForm(s) ==
    \E a, b \in DOMAIN s :
        /\ a < b /\ s[a] = "-" /\ s[b] = "-" /\ Len(s) = b + 2
        /\ SubSeq(s, 1, a - 1) \in Range(word1)
        /\ SubSeq(s, a + 1, b - 1) \in Range(word2)
        /\ \A k \in (1 .. a - 1) \cup (a + 1 .. b - 1) : s[k] \in Range(UpperLetters)
        /\ s[b + 1] \in Range(DigitChars) \ {"0"}
        /\ s[b + 2] \in Range(DigitChars)

\* C22: every generated code is WORD1-WORD2-NN with the words from the two
\* lists and NN in 10..99, and a typed code that differs from a generated one
\* in letter case or surrounding white space is looked up under that code.
CodeFormAndLookup ==
    /\ last.op = "generateRoomCode" => HasCodeForm(last.code)
    /\ last.op = "inputRoomCode" => last.code = last.stored

\* C22 witness: a padded, lower-case spelling was typed and found the code
CodeLookupWitness ==
    /\ last.op = "inputRoomCode"
    /\ Head(last.input) \in Whitespace
    /\ last.input[Len(last.input)] \in Whitespace
    /\ \E k \in DOMAIN last.input : last.input[k] \in Range(LowerLetters)
    /\ last.code = last.stored
    /\ HasCodeForm(last.code)

\* C23: as long as rooms are only created, every createRoom call has
\* produced a code of its own: there are as many records as calls.
CreatedCodesDistinct ==
    Cardinality({k \in Codes : store[k].exists}) = nOps

\* C24: a leave computed from a snapshot that still lists a participant whose
\* removal is already stored writes that participant back: the earlier
\* removal is lost although both leaves completed.
LeaveLosesRemoval ==
    (last.op = "leave" /\ last.acted /\ last.before.exists) =>
        \A a \in Uids(last.view.participants) \ {last.c} :
            a \notin Uids(last.before.participants) =>
                store[last.code].exists /\ a \in Roster(last.code)

\* C24 witness: both a and last.c have left the session, a's leave was stored
\* first, and a is listed in the stored participants
LeaveLosesRemovalWitness ==
    /\ last.op = "leave" /\ last.acted /\ last.before.exists
    /\ store[last.code].exists
    /\ last.c \notin Roster(last.code)
    /\ \E a \in Users \ {last.c} :
          /\ a \in Uids(last.view.participants)
          /\ a \notin Uids(last.before.participants)
          /\ last.code \notin member[a]
          /\ roomCode[a] = Lobby
          /\ a \in Roster(last.code)

\* C25: a client whose listener reported that the record is gone is back in
\* the lobby: no room code, no session view, no subscription handle and no
\* live listener on that code.
EndedSessionLeavesRoom ==
    (last.op = "ended") =>
        /\ roomCode[last.c] = Lobby
        /\ sessionData[last.c] = Null
        /\ unsubscribeRef[last.c] = NoRef
        /\ listeners[last.c][last.code] = 0

\* C26: a join by an identity the record did not list appends it as the last
\* participant with canShare false and keeps hostId, the stored order of the
\* others and every other stored permissions entry.
JoinKeepsOthers ==
    (last.op = "join" /\ last.acted /\ last.c \notin Uids(last.before.participants)) =>
        LET doc == store[last.code]
        IN  /\ doc.participants =
                  Append(last.before.participants,
                         doc.participants[Len(doc.participants)])
            /\ doc.participants[Len(doc.participants)].uid = last.c
            /\ doc.hostId = last.before.hostId
            /\ last.c \in DOMAIN doc.permissions /\ ~doc.permissions[last.c]
            /\ \A u \in DOMAIN last.before.permissions \ {last.c} :
                  u \in DOMAIN doc.permissions
                      /\ doc.permissions[u] = last.before.permissions[u]

\* C27: in every persisted session the participant named by hostId has a
\* permissions entry with canShare true.
HostCanShare ==
    \A k \in Codes :
        (store[k].exists /\ store[k].hostId \in Roster(k)) =>
            /\ store[k].hostId \in DOMAIN store[k].permissions
            /\ store[k].permissions[store[k].hostId]

\* C28: no handler run on a record that stays stored removes from its
\* participants a client that entered the session and has not left it.
MemberStaysListed ==
    WroteToKept =>
        \A c \in Uids(last.before.participants) :
            last.code \in member[c] => c \in Roster(last.code)

\* C29: a leave by a client that shows a room but has no snapshot yet writes
\* nothing and leaves the client in the room with its listener attached.
LeaveWithoutViewIsNoOp ==
    (last.op = "leave" /\ last.view = Null) =>
        /\ ~last.acted
        /\ store[last.code] = last.before
        /\ roomCode[last.c] = last.code
        /\ unsubscribeRef[last.c] = last.code
        /\ listeners[last.c][last.code] >= 1

\* C29 witness: the creator pressed leave before its first snapshot; the
\* record still lists it and it still shows the room
LeaveWithoutViewWitness ==
    /\ last.op = "leave" /\ last.view = Null /\ ~last.acted
    /\ store[last.code].exists
    /\ last.c \in Roster(last.code)
    /\ roomCode[last.c] = last.code
    /\ last.code \in pendingSnap[last.c]

\* C30: an unmount writes nothing: the record of the room the client showed
\* is as it was, the client's participant entry included, and the client
\* holds no handle and no listener.
UnmountWritesNothing ==
    (last.op = "unmount" /\ last.code \in Codes) =>
        /\ store[last.code] = last.before
        /\ roomCode[last.c] = Lobby
        /\ unsubscribeRef[last.c] = NoRef
        /\ \A k \in Codes : listeners[last.c][k] = 0

\* C30 witness: a participant navigated away and is still listed
UnmountWitness ==
    /\ last.op = "unmount" /\ last.code \in Codes
    /\ store[last.code].exists
    /\ last.c \in Roster(last.code)
    /\ last.before.participants = store[last.code].participants
====
